---- MODULE Spec2Model ----
(***************************************************************************)
(* Model of tantivy's SegmentManager (src/indexer/segment_manager.rs).     *)
(*                                                                         *)
(* The manager owns three SegmentRegisters (uncommitted, committed,        *)
(* committed_in_the_future) behind one RwLock.  Two specifications are     *)
(* given over the same registers:                                          *)
(*   Spec      one caller; every public method is one atomic step.         *)
(*   ConcSpec  several threads; lock acquisition, every register update    *)
(*             made under the lock, and lock release are separate steps.   *)
(*   FairSpec  the threads of ConcSpec under fair scheduling, with a call    *)
(*             that waits for the lock shown as a state of its own.         *)
(*   MergeSpec a merge worker calling start_merge and later end_merge while *)
(*             other threads call add_segment, commit and soft_commit;      *)
(*             every call is one atomic step.                               *)
(***************************************************************************)
EXTENDS Integers, Sequences, FiniteSets, TLC

VARIABLES
    uncommitted,              \* SegmentRegisters.uncommitted
    committed,                \* SegmentRegisters.committed
    committed_in_the_future,  \* SegmentRegisters.committed_in_the_future
    last,                     \* Spec: the most recent call, its arguments, result and pre-state
    latest,                   \* history: SegmentId -> entry most recently registered for it
    ops,                      \* number of calls made so far
    lock,                     \* ConcSpec: SegmentManager.registers' RwLock: its writer, its readers
    pc,                       \* ConcSpec: where each thread stands in the method it is running
    frame,                    \* ConcSpec: each thread's arguments and locals
    stable,                   \* history: the registers when the write lock was last released
    merging                   \* MergeSpec: the merge worker's merge and what happened since it started

seqvars == <<last, latest, merging>>
concvars == <<lock, pc, frame, stable>>
regvars == <<uncommitted, committed, committed_in_the_future>>
vars == <<uncommitted, committed, committed_in_the_future, last, latest, ops,
          lock, pc, frame, stable, merging>>

----------------------------------------------------------------------------
(* Bounds *)

NumSegmentIds == 2
MaxNumDocs == 1
MaxOpstamp == 1
MaxLen == 2
MaxOps == 2
MaxMergeOps == 4
MaxMergeLen == 1
MaxFairLen == 1
NumThreads == 2

----------------------------------------------------------------------------
(* Data: SegmentId, SegmentMeta, SegmentEntry *)

SegmentId == 1..NumSegmentIds

Threads == 1..NumThreads

SegmentMeta ==
    [segment_id : SegmentId, num_docs : 0..MaxNumDocs, delete_opstamp : 0..MaxOpstamp]

\* A SegmentEntry pairs a SegmentMeta with a delete cursor.  No method of the
\* manager reads or moves the cursor, so only the meta is kept.
SegmentEntry == [meta : SegmentMeta]

segment_id(entry) == entry.meta.segment_id

SeqsUpTo(S, n) == UNION {[1..k -> S] : k \in 0..n}

MetaLists == SeqsUpTo(SegmentMeta, MaxLen)
EntryLists == SeqsUpTo(SegmentEntry, MaxLen)
IdLists == SeqsUpTo(SegmentId, MaxLen)

----------------------------------------------------------------------------
(* SegmentRegister: a map SegmentId -> SegmentEntry *)

EmptyRegister == [id \in {} |-> [meta |-> 0]]

register_segment_entry(reg, entry) ==
    [id \in (DOMAIN reg) \cup {segment_id(entry)} |->
        IF id = segment_id(entry) THEN entry ELSE reg[id]]

remove_segment(reg, id) == [i \in (DOMAIN reg) \ {id} |-> reg[i]]

\* Option<SegmentEntry>: <<>> is None, <<e>> is Some(e)
get(reg, id) == IF id \in DOMAIN reg THEN <<reg[id]>> ELSE <<>>

contains_all(reg, ids) == \A i \in 1..Len(ids) : ids[i] \in DOMAIN reg

\* Vec<SegmentEntry> in the map's arbitrary order: the set of entries
segment_entries(reg) == {reg[id] : id \in DOMAIN reg}

segment_metas(reg) == {reg[id].meta : id \in DOMAIN reg}

register_get_mergeable_segments(reg, in_merge_segment_ids) ==
    {reg[id].meta : id \in (DOMAIN reg) \ in_merge_segment_ids}

clear(reg) == EmptyRegister

RECURSIVE SegmentRegister_new(_, _)
SegmentRegister_new(segment_metas_list, reg) ==
    IF segment_metas_list = <<>> THEN reg
    ELSE SegmentRegister_new(Tail(segment_metas_list),
                             register_segment_entry(reg, [meta |-> Head(segment_metas_list)]))

----------------------------------------------------------------------------
(* SegmentRegisters and the methods of SegmentManager as functions of them *)

Registers == [uncommitted |-> uncommitted, committed |-> committed,
              committed_in_the_future |-> committed_in_the_future]

from_segments(segment_metas_list) ==
    [uncommitted |-> EmptyRegister,
     committed |-> SegmentRegister_new(segment_metas_list, EmptyRegister),
     committed_in_the_future |-> EmptyRegister]

manager_segment_entries(R) ==
    segment_entries(R.uncommitted) \cup segment_entries(R.committed)

\* core::META_FILEPATH
META_FILEPATH == <<"meta.json">>

\* SegmentMeta::list_files: the component files named after the segment id and
\* the delete file named after the segment id and the delete opstamp
meta_list_files(segment_meta) ==
    {<<segment_meta.segment_id, component>> : component \in {"idx", "store"}}
        \cup {<<segment_meta.segment_id, "del", segment_meta.delete_opstamp>>}

\* SegmentMeta::all: every SegmentMeta alive in the process: the ones the three
\* registers hold and the ones the caller passed in and still holds
SegmentMeta_all ==
    segment_metas(uncommitted) \cup segment_metas(committed)
        \cup segment_metas(committed_in_the_future)
        \cup {last.entries[i].meta : i \in 1..Len(last.entries)}

\* list_files that forgets the meta file
list_files_without_meta_file ==
    UNION {meta_list_files(segment_meta) : segment_meta \in SegmentMeta_all}

list_files ==
    {META_FILEPATH}
        \cup UNION {meta_list_files(segment_meta) : segment_meta \in SegmentMeta_all}

get_mergeable_segments(in_merge_segment_ids, R) ==
    <<register_get_mergeable_segments(R.committed, in_merge_segment_ids),
      register_get_mergeable_segments(R.uncommitted, in_merge_segment_ids)>>

RECURSIVE remove_all(_, _)
remove_all(reg, ids) ==
    IF ids = {} THEN reg
    ELSE LET id == CHOOSE i \in ids : TRUE
         IN remove_all(remove_segment(reg, id), ids \ {id})

\* remove_empty_segments that also empties the uncommitted register of them
remove_empty_segments_everywhere(R) ==
    [R EXCEPT !.committed =
        remove_all(R.committed,
                   {id \in DOMAIN R.committed : R.committed[id].meta.num_docs = 0}),
              !.uncommitted =
        remove_all(R.uncommitted,
                   {id \in DOMAIN R.uncommitted : R.uncommitted[id].meta.num_docs = 0})]

remove_empty_segments(R) ==
    [R EXCEPT !.committed =
        remove_all(R.committed,
                   {segment_id(e) : e \in {s \in segment_entries(R.committed) :
                                              s.meta.num_docs = 0}})]

RECURSIVE register_all(_, _)
register_all(reg, entries) ==
    IF entries = <<>> THEN reg
    ELSE register_all(register_segment_entry(reg, Head(entries)), Tail(entries))

\* commit that forgets uncommitted.clear()
commit_no_clear_uncommitted(R, entries) ==
    [uncommitted |-> R.uncommitted,
     committed |-> register_all(clear(R.committed), entries),
     committed_in_the_future |-> clear(R.committed_in_the_future)]

\* commit that forgets committed_in_the_future.clear()
commit_no_clear_future(R, entries) ==
    [uncommitted |-> clear(R.uncommitted),
     committed |-> register_all(clear(R.committed), entries),
     committed_in_the_future |-> R.committed_in_the_future]

commit(R, entries) ==
    [uncommitted |-> clear(R.uncommitted),
     committed |-> register_all(clear(R.committed), entries),
     committed_in_the_future |-> clear(R.committed_in_the_future)]

\* soft_commit iteration that overwrites committed instead of using committed_in_the_future
soft_commit_entry_overwrite(R, segment_entry) ==
    LET id == segment_id(segment_entry)
    IN  IF get(R.committed, id) # <<>>
        THEN IF get(R.committed, id)[1].meta.delete_opstamp
                    = segment_entry.meta.delete_opstamp
             THEN R
             ELSE [R EXCEPT !.committed =
                      register_segment_entry(R.committed, segment_entry)]
        ELSE IF get(R.uncommitted, id) # <<>>
             THEN [R EXCEPT !.uncommitted =
                      register_segment_entry(R.uncommitted, segment_entry)]
             ELSE R

\* soft_commit iteration that moves the segment out of committed
soft_commit_entry_move(R, segment_entry) ==
    LET id == segment_id(segment_entry)
    IN  IF get(R.committed, id) # <<>>
        THEN IF get(R.committed, id)[1].meta.delete_opstamp
                    = segment_entry.meta.delete_opstamp
             THEN R
             ELSE [R EXCEPT !.committed = remove_segment(R.committed, id),
                            !.committed_in_the_future =
                      register_segment_entry(R.committed_in_the_future, segment_entry)]
        ELSE IF get(R.uncommitted, id) # <<>>
             THEN [R EXCEPT !.uncommitted =
                      register_segment_entry(R.uncommitted, segment_entry)]
             ELSE R

\* soft_commit iteration that registers an unknown segment into uncommitted
soft_commit_entry_insert_unknown(R, segment_entry) ==
    LET id == segment_id(segment_entry)
    IN  IF get(R.committed, id) # <<>>
        THEN IF get(R.committed, id)[1].meta.delete_opstamp
                    = segment_entry.meta.delete_opstamp
             THEN R
             ELSE [R EXCEPT !.committed_in_the_future =
                      register_segment_entry(R.committed_in_the_future, segment_entry)]
        ELSE [R EXCEPT !.uncommitted =
                 register_segment_entry(R.uncommitted, segment_entry)]

\* soft_commit iteration without the test for an unchanged delete opstamp
soft_commit_entry_no_equal_test(R, segment_entry) ==
    LET id == segment_id(segment_entry)
    IN  IF get(R.committed, id) # <<>>
        THEN [R EXCEPT !.committed_in_the_future =
                 register_segment_entry(R.committed_in_the_future, segment_entry)]
        ELSE IF get(R.uncommitted, id) # <<>>
             THEN [R EXCEPT !.uncommitted =
                      register_segment_entry(R.uncommitted, segment_entry)]
             ELSE R

\* one iteration of soft_commit's loop
soft_commit_entry(R, segment_entry) ==
    LET id == segment_id(segment_entry)
        committed_segment_entry == get(R.committed, id)
    IN  IF committed_segment_entry # <<>>
        THEN IF committed_segment_entry[1].meta.delete_opstamp
                    = segment_entry.meta.delete_opstamp
             THEN R
             ELSE [R EXCEPT !.committed_in_the_future =
                      register_segment_entry(R.committed_in_the_future, segment_entry)]
        ELSE IF get(R.uncommitted, id) # <<>>
             THEN [R EXCEPT !.uncommitted =
                      register_segment_entry(R.uncommitted, segment_entry)]
             ELSE R

RECURSIVE soft_commit(_, _)
soft_commit(R, entries) ==
    IF entries = <<>> THEN R
    ELSE soft_commit(soft_commit_entry(R, Head(entries)), Tail(entries))

\* start_merge that looks into committed before uncommitted
start_merge_committed_first(R, segment_ids) ==
    IF contains_all(R.committed, segment_ids)
    THEN [ok |-> TRUE,
          entries |-> [i \in 1..Len(segment_ids) |-> get(R.committed, segment_ids[i])[1]]]
    ELSE IF contains_all(R.uncommitted, segment_ids)
    THEN [ok |-> TRUE,
          entries |-> [i \in 1..Len(segment_ids) |-> get(R.uncommitted, segment_ids[i])[1]]]
    ELSE [ok |-> FALSE, entries |-> <<>>]

\* start_merge that accepts ids spread over the two registers
start_merge_mixed(R, segment_ids) ==
    IF \A i \in 1..Len(segment_ids) :
           segment_ids[i] \in (DOMAIN R.uncommitted) \cup (DOMAIN R.committed)
    THEN [ok |-> TRUE,
          entries |-> [i \in 1..Len(segment_ids) |->
                          IF segment_ids[i] \in DOMAIN R.uncommitted
                          THEN R.uncommitted[segment_ids[i]]
                          ELSE R.committed[segment_ids[i]]]]
    ELSE [ok |-> FALSE, entries |-> <<>>]

\* Result<Vec<SegmentEntry>>: ok = FALSE is Err(InvalidArgument)
start_merge(R, segment_ids) ==
    IF contains_all(R.uncommitted, segment_ids)
    THEN [ok |-> TRUE,
          entries |-> [i \in 1..Len(segment_ids) |-> get(R.uncommitted, segment_ids[i])[1]]]
    ELSE IF contains_all(R.committed, segment_ids)
    THEN [ok |-> TRUE,
          entries |-> [i \in 1..Len(segment_ids) |-> get(R.committed, segment_ids[i])[1]]]
    ELSE [ok |-> FALSE, entries |-> <<>>]

add_segment(R, segment_entry) ==
    [R EXCEPT !.uncommitted = register_segment_entry(R.uncommitted, segment_entry)]

RECURSIVE remove_each(_, _)
remove_each(reg, ids) ==
    IF ids = <<>> THEN reg
    ELSE remove_each(remove_segment(reg, Head(ids)), Tail(ids))

\* end_merge's choice with the two tests swapped
target_register_committed_first(R, before_merge_segment_ids) ==
    IF contains_all(R.committed, before_merge_segment_ids) THEN "committed"
    ELSE IF contains_all(R.uncommitted, before_merge_segment_ids) THEN "uncommitted"
    ELSE "none"

\* which register end_merge picks: "uncommitted", "committed" or "none"
target_register(R, before_merge_segment_ids) ==
    IF contains_all(R.uncommitted, before_merge_segment_ids) THEN "uncommitted"
    ELSE IF contains_all(R.committed, before_merge_segment_ids) THEN "committed"
    ELSE "none"

\* end_merge that forgets to remove the merged segments
end_merge_keep_before(R, before_merge_segment_ids, after_merge_segment_entry) ==
    LET target == target_register(R, before_merge_segment_ids)
    IN  IF target = "uncommitted"
        THEN [R EXCEPT !.uncommitted =
                 register_segment_entry(R.uncommitted, after_merge_segment_entry)]
        ELSE IF target = "committed"
        THEN [R EXCEPT !.committed =
                 register_segment_entry(R.committed, after_merge_segment_entry)]
        ELSE R

\* end_merge that registers a stale merge result instead of dropping it
end_merge_keep_stale(R, before_merge_segment_ids, after_merge_segment_entry) ==
    LET target == target_register(R, before_merge_segment_ids)
    IN  IF target = "committed"
        THEN [R EXCEPT !.committed =
                 register_segment_entry(remove_each(R.committed, before_merge_segment_ids),
                                        after_merge_segment_entry)]
        ELSE [R EXCEPT !.uncommitted =
                 register_segment_entry(remove_each(R.uncommitted, before_merge_segment_ids),
                                        after_merge_segment_entry)]

end_merge(R, before_merge_segment_ids, after_merge_segment_entry) ==
    LET target == target_register(R, before_merge_segment_ids)
    IN  IF target = "uncommitted"
        THEN [R EXCEPT !.uncommitted =
                 register_segment_entry(remove_each(R.uncommitted, before_merge_segment_ids),
                                        after_merge_segment_entry)]
        ELSE IF target = "committed"
        THEN [R EXCEPT !.committed =
                 register_segment_entry(remove_each(R.committed, before_merge_segment_ids),
                                        after_merge_segment_entry)]
        ELSE R

\* one caller: remove_empty_segments, then the read of committed
committed_segment_metas(R) ==
    LET after_gc == remove_empty_segments(R)
    IN  [regs |-> after_gc, metas |-> segment_metas(after_gc.committed)]

----------------------------------------------------------------------------
(* History: the entry most recently registered for each SegmentId *)

RECURSIVE note_all(_, _)
note_all(h, entries) ==
    IF entries = <<>> THEN h
    ELSE note_all(register_segment_entry(h, Head(entries)), Tail(entries))

\* the entries of a soft_commit that get registered somewhere, in order
RECURSIVE soft_commit_registered(_, _)
soft_commit_registered(R, entries) ==
    IF entries = <<>> THEN <<>>
    ELSE LET next == soft_commit_entry(R, Head(entries))
             id == segment_id(Head(entries))
             registers ==
                 IF id \in DOMAIN R.committed
                 THEN R.committed[id].meta.delete_opstamp
                          # Head(entries).meta.delete_opstamp
                 ELSE id \in DOMAIN R.uncommitted
         IN (IF registers THEN <<Head(entries)>> ELSE <<>>)
                \o soft_commit_registered(next, Tail(entries))

----------------------------------------------------------------------------
(* Spec: one caller, one step per call *)

NoCall == [op |-> "from_segments", ids |-> <<>>, entries |-> <<>>,
           ok |-> TRUE, ret |-> <<>>, pre |-> from_segments(<<>>)]

NoMerge == [state |-> "idle", ids |-> <<>>, found |-> "none",
            committed |-> FALSE, added |-> FALSE]

NoFrame == [op |-> "none", ids |-> <<>>, entries |-> <<>>, in_merge |-> {},
            target |-> "none", part |-> {}, segment_entries |-> <<>>,
            ok |-> TRUE, ret |-> {}]

SetRegisters(R) ==
    /\ uncommitted' = R.uncommitted
    /\ committed' = R.committed
    /\ committed_in_the_future' = R.committed_in_the_future

Init ==
    \E segment_metas_list \in MetaLists :
        LET R == from_segments(segment_metas_list)
        IN  /\ uncommitted = R.uncommitted
            /\ committed = R.committed
            /\ committed_in_the_future = R.committed_in_the_future
            /\ latest = R.committed
            /\ last = NoCall
            /\ ops = 0
            /\ lock = [writer |-> 0, readers |-> {}]
            /\ pc = [t \in Threads |-> "idle"]
            /\ frame = [t \in Threads |-> NoFrame]
            /\ stable = R
            /\ merging = NoMerge

CallAddSegment ==
    /\ ops < MaxOps
    /\ \E segment_entry \in SegmentEntry :
        /\ SetRegisters(add_segment(Registers, segment_entry))
        /\ latest' = register_segment_entry(latest, segment_entry)
        /\ last' = [op |-> "add_segment", ids |-> <<>>, entries |-> <<segment_entry>>,
                    ok |-> TRUE, ret |-> <<>>, pre |-> Registers]
    /\ ops' = ops + 1
    /\ UNCHANGED <<concvars, merging>>

CallCommit ==
    /\ ops < MaxOps
    /\ \E entries \in EntryLists :
        /\ SetRegisters(commit(Registers, entries))
        /\ latest' = note_all(latest, entries)
        /\ last' = [op |-> "commit", ids |-> <<>>, entries |-> entries,
                    ok |-> TRUE, ret |-> <<>>, pre |-> Registers]
    /\ ops' = ops + 1
    /\ UNCHANGED <<concvars, merging>>

CallSoftCommit ==
    /\ ops < MaxOps
    /\ \E entries \in EntryLists :
        /\ SetRegisters(soft_commit(Registers, entries))
        /\ latest' = note_all(latest, soft_commit_registered(Registers, entries))
        /\ last' = [op |-> "soft_commit", ids |-> <<>>, entries |-> entries,
                    ok |-> TRUE, ret |-> <<>>, pre |-> Registers]
    /\ ops' = ops + 1
    /\ UNCHANGED <<concvars, merging>>

\* start_merge that takes the segments it returns out of their register
CallStartMerge_taking ==
    /\ ops < MaxOps
    /\ \E segment_ids \in IdLists :
        LET result == start_merge(Registers, segment_ids)
            target == target_register(Registers, segment_ids)
        IN  /\ last' = [op |-> "start_merge", ids |-> segment_ids, entries |-> <<>>,
                        ok |-> result.ok, ret |-> result.entries, pre |-> Registers]
            /\ uncommitted' = IF target = "uncommitted"
                              THEN remove_each(uncommitted, segment_ids) ELSE uncommitted
            /\ committed' = IF target = "committed"
                            THEN remove_each(committed, segment_ids) ELSE committed
    /\ ops' = ops + 1
    /\ UNCHANGED <<concvars, merging>>
    /\ UNCHANGED <<committed_in_the_future, latest>>

CallStartMerge ==
    /\ ops < MaxOps
    /\ \E segment_ids \in IdLists :
        LET result == start_merge(Registers, segment_ids)
        IN  last' = [op |-> "start_merge", ids |-> segment_ids, entries |-> <<>>,
                     ok |-> result.ok, ret |-> result.entries, pre |-> Registers]
    /\ ops' = ops + 1
    /\ UNCHANGED <<concvars, merging>>
    /\ UNCHANGED <<uncommitted, committed, committed_in_the_future, latest>>

CallEndMerge ==
    /\ ops < MaxOps
    /\ \E before_merge_segment_ids \in IdLists, after_merge_segment_entry \in SegmentEntry :
        /\ SetRegisters(end_merge(Registers, before_merge_segment_ids,
                                  after_merge_segment_entry))
        /\ latest' = IF target_register(Registers, before_merge_segment_ids) = "none"
                     THEN latest
                     ELSE register_segment_entry(latest, after_merge_segment_entry)
        /\ last' = [op |-> "end_merge", ids |-> before_merge_segment_ids,
                    entries |-> <<after_merge_segment_entry>>,
                    ok |-> TRUE, ret |-> <<>>, pre |-> Registers]
    /\ ops' = ops + 1
    /\ UNCHANGED <<concvars, merging>>

CallCommittedSegmentMetas ==
    /\ ops < MaxOps
    /\ LET result == committed_segment_metas(Registers)
       IN  /\ SetRegisters(result.regs)
           /\ last' = [op |-> "committed_segment_metas", ids |-> <<>>, entries |-> <<>>,
                       ok |-> TRUE, ret |-> result.metas, pre |-> Registers]
    /\ ops' = ops + 1
    /\ UNCHANGED <<concvars, merging>>
    /\ UNCHANGED latest

Next ==
    \/ CallAddSegment
    \/ CallCommit
    \/ CallSoftCommit
    \/ CallStartMerge
    \/ CallEndMerge
    \/ CallCommittedSegmentMetas

Spec == Init /\ [][Next]_vars

----------------------------------------------------------------------------
(* MergeSpec: one merge worker (start_merge, then end_merge on the same ids) *)
(* among other threads calling add_segment, commit and soft_commit.  `last`  *)
(* is the merge worker's most recent call; `merging` notes, while the merge  *)
(* is under way, whether another thread committed or added one of its ids.   *)

\* the lists the other threads commit
MergeEntryLists == SeqsUpTo(SegmentEntry, MaxMergeLen)

\* the merge record after a call of another thread
noted(commit_made, id_added) ==
    IF merging.state = "started"
    THEN [merging EXCEPT !.committed = @ \/ commit_made, !.added = @ \/ id_added]
    ELSE NoMerge

OtherAddSegment ==
    /\ ops < MaxMergeOps
    /\ \E segment_entry \in SegmentEntry :
        /\ SetRegisters(add_segment(Registers, segment_entry))
        /\ merging' = noted(FALSE, segment_id(segment_entry) \in
                                       {merging.ids[i] : i \in 1..Len(merging.ids)})
    /\ ops' = ops + 1
    /\ UNCHANGED <<last, latest, concvars>>

OtherCommit ==
    /\ ops < MaxMergeOps
    /\ \E entries \in MergeEntryLists :
        SetRegisters(commit(Registers, entries))
    /\ merging' = noted(TRUE, FALSE)
    /\ ops' = ops + 1
    /\ UNCHANGED <<last, latest, concvars>>

OtherSoftCommit ==
    /\ ops < MaxMergeOps
    /\ \E entries \in MergeEntryLists :
        SetRegisters(soft_commit(Registers, entries))
    /\ merging' = noted(FALSE, FALSE)
    /\ ops' = ops + 1
    /\ UNCHANGED <<last, latest, concvars>>

MergeStart ==
    /\ ops < MaxMergeOps
    /\ merging.state # "started"
    /\ \E segment_ids \in IdLists :
        LET result == start_merge(Registers, segment_ids)
        IN  /\ last' = [op |-> "start_merge", ids |-> segment_ids, entries |-> <<>>,
                        ok |-> result.ok, ret |-> result.entries, pre |-> Registers]
            /\ merging' =
                  IF result.ok
                  THEN [state |-> "started", ids |-> segment_ids,
                        found |-> IF contains_all(uncommitted, segment_ids)
                                  THEN "uncommitted" ELSE "committed",
                        committed |-> FALSE, added |-> FALSE]
                  ELSE NoMerge
    /\ ops' = ops + 1
    /\ UNCHANGED <<regvars, latest, concvars>>

MergeEnd ==
    /\ ops < MaxMergeOps
    /\ merging.state = "started"
    /\ \E after_merge_segment_entry \in SegmentEntry :
        /\ SetRegisters(end_merge(Registers, merging.ids, after_merge_segment_entry))
        /\ last' = [op |-> "end_merge", ids |-> merging.ids,
                    entries |-> <<after_merge_segment_entry>>,
                    ok |-> TRUE, ret |-> <<>>, pre |-> Registers]
    /\ merging' = [merging EXCEPT !.state = "ended"]
    /\ ops' = ops + 1
    /\ UNCHANGED <<latest, concvars>>

MergeNext ==
    \/ OtherAddSegment
    \/ OtherCommit
    \/ OtherSoftCommit
    \/ MergeStart
    \/ MergeEnd

MergeSpec == Init /\ [][MergeNext]_vars

----------------------------------------------------------------------------
(* ConcSpec: threads calling the manager; one step per lock operation and    *)
(* per register access made under the lock                                   *)

\* SegmentManager::write with the lock taken in a mode that admits readers
write_beside_readers(t) ==
    /\ lock.writer = 0
    /\ lock' = [lock EXCEPT !.writer = t]

\* SegmentManager::read: RwLock::read blocks while a writer holds the lock
read(t) ==
    /\ lock.writer = 0
    /\ lock' = [lock EXCEPT !.readers = @ \cup {t}]

\* SegmentManager::write: RwLock::write blocks while anyone holds the lock
write(t) ==
    /\ lock.writer = 0
    /\ lock.readers = {}
    /\ lock' = [lock EXCEPT !.writer = t]

\* the RwLockWriteGuard is dropped
drop_write(t) ==
    /\ lock' = [lock EXCEPT !.writer = 0]
    /\ stable' = Registers

\* the RwLockReadGuard is dropped
drop_read(t) ==
    /\ lock' = [lock EXCEPT !.readers = @ \ {t}]
    /\ UNCHANGED stable

\* thread t starts a call: it moves to `to` with the locals `f`
Enter(t, to, f) ==
    /\ pc[t] = "idle"
    /\ ops < MaxOps
    /\ ops' = ops + 1
    /\ pc' = [pc EXCEPT ![t] = to]
    /\ frame' = [frame EXCEPT ![t] = f]

Goto(t, to) == pc' = [pc EXCEPT ![t] = to]

\* thread t returns to its caller
Return(t) ==
    /\ pc' = [pc EXCEPT ![t] = "idle"]
    /\ frame' = [frame EXCEPT ![t] = NoFrame]

(* commit, lines 130-138 *)

commit_write(t) ==
    /\ \E entries \in EntryLists :
          Enter(t, "commit_clear_committed",
                [NoFrame EXCEPT !.op = "commit", !.entries = entries])
    /\ write(t)
    /\ UNCHANGED <<regvars, stable, seqvars>>

commit_clear_committed(t) ==
    /\ pc[t] = "commit_clear_committed"
    /\ committed' = clear(committed)
    /\ Goto(t, "commit_clear_future")
    /\ UNCHANGED <<uncommitted, committed_in_the_future, frame, lock, stable, ops, seqvars>>

commit_clear_future(t) ==
    /\ pc[t] = "commit_clear_future"
    /\ committed_in_the_future' = clear(committed_in_the_future)
    /\ Goto(t, "commit_clear_uncommitted")
    /\ UNCHANGED <<uncommitted, committed, frame, lock, stable, ops, seqvars>>

commit_clear_uncommitted(t) ==
    /\ pc[t] = "commit_clear_uncommitted"
    /\ uncommitted' = clear(uncommitted)
    /\ Goto(t, "commit_register")
    /\ UNCHANGED <<committed, committed_in_the_future, frame, lock, stable, ops, seqvars>>

commit_register(t) ==
    /\ pc[t] = "commit_register"
    /\ frame[t].entries # <<>>
    /\ committed' = register_segment_entry(committed, Head(frame[t].entries))
    /\ frame' = [frame EXCEPT ![t].entries = Tail(@)]
    /\ UNCHANGED <<uncommitted, committed_in_the_future, pc, lock, stable, ops, seqvars>>

commit_return(t) ==
    /\ pc[t] = "commit_register"
    /\ frame[t].entries = <<>>
    /\ drop_write(t)
    /\ Return(t)
    /\ UNCHANGED <<regvars, ops, seqvars>>

(* soft_commit, lines 140-162 *)

soft_commit_write(t) ==
    /\ \E entries \in EntryLists :
          Enter(t, "soft_commit_loop",
                [NoFrame EXCEPT !.op = "soft_commit", !.entries = entries])
    /\ write(t)
    /\ UNCHANGED <<regvars, stable, seqvars>>

soft_commit_loop(t) ==
    /\ pc[t] = "soft_commit_loop"
    /\ frame[t].entries # <<>>
    /\ SetRegisters(soft_commit_entry(Registers, Head(frame[t].entries)))
    /\ frame' = [frame EXCEPT ![t].entries = Tail(@)]
    /\ UNCHANGED <<pc, lock, stable, ops, seqvars>>

soft_commit_return(t) ==
    /\ pc[t] = "soft_commit_loop"
    /\ frame[t].entries = <<>>
    /\ drop_write(t)
    /\ Return(t)
    /\ UNCHANGED <<regvars, ops, seqvars>>

(* add_segment, lines 195-198 *)

add_segment_write(t) ==
    /\ \E segment_entry \in SegmentEntry :
          Enter(t, "add_segment_register",
                [NoFrame EXCEPT !.op = "add_segment", !.entries = <<segment_entry>>])
    /\ write(t)
    /\ UNCHANGED <<regvars, stable, seqvars>>

add_segment_register(t) ==
    /\ pc[t] = "add_segment_register"
    /\ SetRegisters(add_segment(Registers, frame[t].entries[1]))
    /\ Goto(t, "add_segment_return")
    /\ UNCHANGED <<frame, lock, stable, ops, seqvars>>

add_segment_return(t) ==
    /\ pc[t] = "add_segment_return"
    /\ drop_write(t)
    /\ Return(t)
    /\ UNCHANGED <<regvars, ops, seqvars>>

(* end_merge, lines 200-226 *)

end_merge_write(t) ==
    /\ \E before_merge_segment_ids \in IdLists, after_merge_segment_entry \in SegmentEntry :
          Enter(t, "end_merge_target",
                [NoFrame EXCEPT !.op = "end_merge", !.ids = before_merge_segment_ids,
                                !.entries = <<after_merge_segment_entry>>])
    /\ write(t)
    /\ UNCHANGED <<regvars, stable, seqvars>>

end_merge_target(t) ==
    /\ pc[t] = "end_merge_target"
    /\ LET target == target_register(Registers, frame[t].ids)
       IN  /\ frame' = [frame EXCEPT ![t].target = target]
           /\ Goto(t, IF target = "none" THEN "end_merge_return" ELSE "end_merge_remove")
    /\ UNCHANGED <<regvars, lock, stable, ops, seqvars>>

end_merge_remove(t) ==
    /\ pc[t] = "end_merge_remove"
    /\ frame[t].ids # <<>>
    /\ IF frame[t].target = "uncommitted"
       THEN /\ uncommitted' = remove_segment(uncommitted, Head(frame[t].ids))
            /\ UNCHANGED committed
       ELSE /\ committed' = remove_segment(committed, Head(frame[t].ids))
            /\ UNCHANGED uncommitted
    /\ frame' = [frame EXCEPT ![t].ids = Tail(@)]
    /\ UNCHANGED <<committed_in_the_future, pc, lock, stable, ops, seqvars>>

end_merge_register(t) ==
    /\ pc[t] = "end_merge_remove"
    /\ frame[t].ids = <<>>
    /\ IF frame[t].target = "uncommitted"
       THEN /\ uncommitted' = register_segment_entry(uncommitted, frame[t].entries[1])
            /\ UNCHANGED committed
       ELSE /\ committed' = register_segment_entry(committed, frame[t].entries[1])
            /\ UNCHANGED uncommitted
    /\ Goto(t, "end_merge_return")
    /\ UNCHANGED <<committed_in_the_future, frame, lock, stable, ops, seqvars>>

end_merge_return(t) ==
    /\ pc[t] = "end_merge_return"
    /\ drop_write(t)
    /\ Return(t)
    /\ UNCHANGED <<regvars, ops, seqvars>>

(* committed_segment_metas, lines 228-232, and remove_empty_segments, lines 116-128 *)

remove_empty_segments_write(t) ==
    /\ Enter(t, "remove_empty_segments", [NoFrame EXCEPT !.op = "committed_segment_metas"])
    /\ write(t)
    /\ UNCHANGED <<regvars, stable, seqvars>>

remove_empty_segments_filter(t) ==
    /\ pc[t] = "remove_empty_segments"
    /\ SetRegisters(remove_empty_segments(Registers))
    /\ Goto(t, "remove_empty_segments_return")
    /\ UNCHANGED <<frame, lock, stable, ops, seqvars>>

\* remove_empty_segments returning with its write guard still alive
remove_empty_segments_return_holding(t) ==
    /\ pc[t] = "remove_empty_segments_return"
    /\ Goto(t, "committed_segment_metas_read")
    /\ UNCHANGED <<regvars, frame, lock, stable, ops, seqvars>>

remove_empty_segments_return(t) ==
    /\ pc[t] = "remove_empty_segments_return"
    /\ drop_write(t)
    /\ Goto(t, "committed_segment_metas_read")
    /\ UNCHANGED <<regvars, frame, ops, seqvars>>

committed_segment_metas_read(t) ==
    /\ pc[t] = "committed_segment_metas_read"
    /\ read(t)
    /\ Goto(t, "committed_segment_metas")
    /\ UNCHANGED <<regvars, frame, stable, ops, seqvars>>

committed_segment_metas_collect(t) ==
    /\ pc[t] = "committed_segment_metas"
    /\ frame' = [frame EXCEPT ![t].ret = segment_metas(committed)]
    /\ Goto(t, "committed_segment_metas_return")
    /\ UNCHANGED <<regvars, lock, stable, ops, seqvars>>

committed_segment_metas_return(t) ==
    /\ pc[t] = "committed_segment_metas_return"
    /\ drop_read(t)
    /\ Return(t)
    /\ UNCHANGED <<regvars, ops, seqvars>>

(* segment_entries, lines 80-85 *)

segment_entries_read(t) ==
    /\ Enter(t, "segment_entries_uncommitted", [NoFrame EXCEPT !.op = "segment_entries"])
    /\ read(t)
    /\ UNCHANGED <<regvars, stable, seqvars>>

segment_entries_uncommitted(t) ==
    /\ pc[t] = "segment_entries_uncommitted"
    /\ frame' = [frame EXCEPT ![t].part = segment_entries(uncommitted)]
    /\ Goto(t, "segment_entries_committed")
    /\ UNCHANGED <<regvars, lock, stable, ops, seqvars>>

segment_entries_committed(t) ==
    /\ pc[t] = "segment_entries_committed"
    /\ frame' = [frame EXCEPT ![t].ret = frame[t].part \cup segment_entries(committed)]
    /\ Goto(t, "segment_entries_return")
    /\ UNCHANGED <<regvars, lock, stable, ops, seqvars>>

segment_entries_return(t) ==
    /\ pc[t] = "segment_entries_return"
    /\ drop_read(t)
    /\ Return(t)
    /\ UNCHANGED <<regvars, ops, seqvars>>

(* get_mergeable_segments, lines 50-63 *)

get_mergeable_segments_read(t) ==
    /\ \E in_merge_segment_ids \in SUBSET SegmentId :
          Enter(t, "get_mergeable_segments_committed",
                [NoFrame EXCEPT !.op = "get_mergeable_segments",
                                !.in_merge = in_merge_segment_ids])
    /\ read(t)
    /\ UNCHANGED <<regvars, stable, seqvars>>

get_mergeable_segments_committed(t) ==
    /\ pc[t] = "get_mergeable_segments_committed"
    /\ frame' = [frame EXCEPT ![t].part =
                    register_get_mergeable_segments(committed, frame[t].in_merge)]
    /\ Goto(t, "get_mergeable_segments_uncommitted")
    /\ UNCHANGED <<regvars, lock, stable, ops, seqvars>>

\* second half of get_mergeable_segments without the in-merge filter
get_mergeable_segments_uncommitted_unfiltered(t) ==
    /\ pc[t] = "get_mergeable_segments_uncommitted"
    /\ frame' = [frame EXCEPT ![t].ret = segment_metas(uncommitted)]
    /\ Goto(t, "get_mergeable_segments_return")
    /\ UNCHANGED <<regvars, lock, stable, ops, seqvars>>

get_mergeable_segments_uncommitted(t) ==
    /\ pc[t] = "get_mergeable_segments_uncommitted"
    /\ frame' = [frame EXCEPT ![t].ret =
                    register_get_mergeable_segments(uncommitted, frame[t].in_merge)]
    /\ Goto(t, "get_mergeable_segments_return")
    /\ UNCHANGED <<regvars, lock, stable, ops, seqvars>>

get_mergeable_segments_return(t) ==
    /\ pc[t] = "get_mergeable_segments_return"
    /\ drop_read(t)
    /\ Return(t)
    /\ UNCHANGED <<regvars, ops, seqvars>>

(* start_merge, lines 169-193 *)

start_merge_read(t) ==
    /\ \E segment_ids \in IdLists :
          Enter(t, "start_merge_uncommitted",
                [NoFrame EXCEPT !.op = "start_merge", !.ids = segment_ids])
    /\ read(t)
    /\ UNCHANGED <<regvars, stable, seqvars>>

start_merge_uncommitted(t) ==
    /\ pc[t] = "start_merge_uncommitted"
    /\ IF contains_all(uncommitted, frame[t].ids)
       THEN /\ frame' = [frame EXCEPT ![t].segment_entries =
                            [i \in 1..Len(frame[t].ids) |->
                                get(uncommitted, frame[t].ids[i])[1]]]
            /\ Goto(t, "start_merge_return")
       ELSE /\ UNCHANGED frame
            /\ Goto(t, "start_merge_committed")
    /\ UNCHANGED <<regvars, lock, stable, ops, seqvars>>

start_merge_committed(t) ==
    /\ pc[t] = "start_merge_committed"
    /\ IF contains_all(committed, frame[t].ids)
       THEN frame' = [frame EXCEPT ![t].segment_entries =
                         [i \in 1..Len(frame[t].ids) |->
                             get(committed, frame[t].ids[i])[1]]]
       ELSE frame' = [frame EXCEPT ![t].ok = FALSE]
    /\ Goto(t, "start_merge_return")
    /\ UNCHANGED <<regvars, lock, stable, ops, seqvars>>

start_merge_return(t) ==
    /\ pc[t] = "start_merge_return"
    /\ drop_read(t)
    /\ Return(t)
    /\ UNCHANGED <<regvars, ops, seqvars>>

ConcNext ==
    \E t \in Threads :
        \/ commit_write(t)
        \/ commit_clear_committed(t)
        \/ commit_clear_future(t)
        \/ commit_clear_uncommitted(t)
        \/ commit_register(t)
        \/ commit_return(t)
        \/ soft_commit_write(t)
        \/ soft_commit_loop(t)
        \/ soft_commit_return(t)
        \/ add_segment_write(t)
        \/ add_segment_register(t)
        \/ add_segment_return(t)
        \/ end_merge_write(t)
        \/ end_merge_target(t)
        \/ end_merge_remove(t)
        \/ end_merge_register(t)
        \/ end_merge_return(t)
        \/ remove_empty_segments_write(t)
        \/ remove_empty_segments_filter(t)
        \/ remove_empty_segments_return(t)
        \/ committed_segment_metas_read(t)
        \/ committed_segment_metas_collect(t)
        \/ committed_segment_metas_return(t)
        \/ segment_entries_read(t)
        \/ segment_entries_uncommitted(t)
        \/ segment_entries_committed(t)
        \/ segment_entries_return(t)
        \/ get_mergeable_segments_read(t)
        \/ get_mergeable_segments_committed(t)
        \/ get_mergeable_segments_uncommitted(t)
        \/ get_mergeable_segments_return(t)
        \/ start_merge_read(t)
        \/ start_merge_uncommitted(t)
        \/ start_merge_committed(t)
        \/ start_merge_return(t)

ConcSpec == Init /\ [][ConcNext]_vars

----------------------------------------------------------------------------
(* FairSpec: the threads of ConcSpec, scheduled fairly.  A call is invoked   *)
(* first and takes the lock in a later step, so that a thread blocked on the *)
(* lock is a state; once it holds the lock it runs the steps of ConcSpec.    *)

FairEntryLists == SeqsUpTo(SegmentEntry, MaxFairLen)

FairIdLists == SeqsUpTo(SegmentId, MaxFairLen)

\* the calls a thread can make, as the frame each starts with
Calls ==
    {[NoFrame EXCEPT !.op = "commit", !.entries = entries] : entries \in FairEntryLists}
    \cup {[NoFrame EXCEPT !.op = "soft_commit", !.entries = entries] :
             entries \in FairEntryLists}
    \cup {[NoFrame EXCEPT !.op = "add_segment", !.entries = <<segment_entry>>] :
             segment_entry \in SegmentEntry}
    \cup {[NoFrame EXCEPT !.op = "end_merge", !.ids = c[1], !.entries = <<c[2]>>] :
             c \in FairIdLists \X SegmentEntry}
    \cup {[NoFrame EXCEPT !.op = "committed_segment_metas"]}
    \cup {[NoFrame EXCEPT !.op = "segment_entries"]}
    \cup {[NoFrame EXCEPT !.op = "get_mergeable_segments", !.in_merge = in_merge] :
             in_merge \in SUBSET SegmentId}
    \cup {[NoFrame EXCEPT !.op = "start_merge", !.ids = segment_ids] :
             segment_ids \in FairIdLists}

\* the methods whose first lock operation is self.write()
Writers == {"commit", "soft_commit", "add_segment", "end_merge", "committed_segment_metas"}

\* where a method stands once it holds its first guard
first_step(op) ==
    CASE op = "commit" -> "commit_clear_committed"
      [] op = "soft_commit" -> "soft_commit_loop"
      [] op = "add_segment" -> "add_segment_register"
      [] op = "end_merge" -> "end_merge_target"
      [] op = "committed_segment_metas" -> "remove_empty_segments"
      [] op = "segment_entries" -> "segment_entries_uncommitted"
      [] op = "get_mergeable_segments" -> "get_mergeable_segments_committed"
      [] op = "start_merge" -> "start_merge_uncommitted"

FairInit ==
    /\ Init
    /\ Cardinality((DOMAIN committed) \cup (DOMAIN uncommitted)) <= MaxFairLen

\* thread t calls a method; it holds no lock yet
Invoke(t) ==
    /\ \E call \in Calls : Enter(t, "invoked", call)
    /\ UNCHANGED <<regvars, lock, stable, seqvars>>

\* the call of thread t gets the write lock it waits for
invoked_write(t) ==
    /\ pc[t] = "invoked"
    /\ frame[t].op \in Writers
    /\ write(t)
    /\ Goto(t, first_step(frame[t].op))
    /\ UNCHANGED <<regvars, frame, stable, ops, seqvars>>

\* the call of thread t gets the read lock it waits for
invoked_read(t) ==
    /\ pc[t] = "invoked"
    /\ frame[t].op \notin Writers
    /\ read(t)
    /\ Goto(t, first_step(frame[t].op))
    /\ UNCHANGED <<regvars, frame, stable, ops, seqvars>>

\* a step of the call thread t is in
Step(t) ==
    \/ invoked_write(t)
    \/ invoked_read(t)
    \/ commit_clear_committed(t)
    \/ commit_clear_future(t)
    \/ commit_clear_uncommitted(t)
    \/ commit_register(t)
    \/ commit_return(t)
    \/ soft_commit_loop(t)
    \/ soft_commit_return(t)
    \/ add_segment_register(t)
    \/ add_segment_return(t)
    \/ end_merge_target(t)
    \/ end_merge_remove(t)
    \/ end_merge_register(t)
    \/ end_merge_return(t)
    \/ remove_empty_segments_filter(t)
    \/ remove_empty_segments_return(t)
    \/ committed_segment_metas_read(t)
    \/ committed_segment_metas_collect(t)
    \/ committed_segment_metas_return(t)
    \/ segment_entries_uncommitted(t)
    \/ segment_entries_committed(t)
    \/ segment_entries_return(t)
    \/ get_mergeable_segments_committed(t)
    \/ get_mergeable_segments_uncommitted(t)
    \/ get_mergeable_segments_return(t)
    \/ start_merge_uncommitted(t)
    \/ start_merge_committed(t)
    \/ start_merge_return(t)

FairNext == \E t \in Threads : Invoke(t) \/ Step(t)

\* every thread that can take a step of its call eventually takes one
FairSpec == FairInit /\ [][FairNext]_vars /\ \A t \in Threads : WF_vars(Step(t))

----------------------------------------------------------------------------
(* Properties of the single-caller specification *)

IdSet(ids) == {ids[i] : i \in 1..Len(ids)}

Range(seq) == {seq[i] : i \in 1..Len(seq)}

Disjoint(R) == (DOMAIN R.uncommitted) \cap (DOMAIN R.committed) = {}

\* the register end_merge targets, read from registers R
TargetOf(R, name) == IF name = "uncommitted" THEN R.uncommitted ELSE R.committed
OtherOf(R, name) == IF name = "uncommitted" THEN R.committed ELSE R.uncommitted

\* the last call brought no SegmentId into a register while the other register held it
LastCallFreshId ==
    /\ last.op = "add_segment" =>
          segment_id(last.entries[1]) \notin DOMAIN last.pre.committed
    /\ (last.op = "end_merge" /\ target_register(last.pre, last.ids) # "none") =>
          segment_id(last.entries[1]) \notin
              DOMAIN OtherOf(last.pre, target_register(last.pre, last.ids))

\* C1 (as claimed): no SegmentId is present in both the uncommitted and the
\* committed register, in any state reachable by any sequence of calls.
C1_Original == Disjoint(Registers)

\* C1 (amended): a call keeps uncommitted and committed disjoint provided it
\* does not bring in a SegmentId the other register holds: add_segment with an
\* id not in committed, an applied end_merge whose after_entry id is not in the
\* register it does not target; commit, soft_commit, start_merge and
\* committed_segment_metas always keep them disjoint.
C1_DisjointWhenIdsFresh ==
    (Disjoint(last.pre) /\ LastCallFreshId) => Disjoint(Registers)

C1_Witness ==
    /\ last.op \in {"add_segment", "end_merge"}
    /\ LastCallFreshId
    /\ Disjoint(last.pre)
    /\ target_register(last.pre, last.ids) # "none"
    /\ DOMAIN committed # {}
    /\ DOMAIN uncommitted # {}

\* the entry a commit leaves for id: the last one of the list with that id
LastWithId(entries, id) ==
    entries[CHOOSE i \in 1..Len(entries) :
                /\ segment_id(entries[i]) = id
                /\ \A j \in (i+1)..Len(entries) : segment_id(entries[j]) # id]

\* C2: right after commit(entries), committed holds exactly the given entries,
\* one per SegmentId (the last given for an id), uncommitted and
\* committed_in_the_future are empty, and segment_entries() yields exactly them.
C2_CommitReplacesAll ==
    last.op = "commit" =>
        /\ uncommitted = EmptyRegister
        /\ committed_in_the_future = EmptyRegister
        /\ DOMAIN committed = {segment_id(e) : e \in Range(last.entries)}
        /\ \A id \in DOMAIN committed : committed[id] = LastWithId(last.entries, id)
        /\ manager_segment_entries(Registers) \subseteq Range(last.entries)
        /\ (Cardinality({segment_id(e) : e \in Range(last.entries)}) = Len(last.entries))
              => manager_segment_entries(Registers) = Range(last.entries)

C2_Witness ==
    /\ last.op = "commit"
    /\ Len(last.entries) = 2
    /\ segment_id(last.entries[1]) # segment_id(last.entries[2])
    /\ (DOMAIN last.pre.uncommitted # {} \/ DOMAIN last.pre.committed_in_the_future # {})
    /\ DOMAIN last.pre.committed # {}

\* C3 (as claimed): whenever start_merge(ids) succeeds, the ids of the returned
\* entries are the requested ids and each returned entry is the entry most
\* recently registered for that id by any earlier operation.
C3_Original ==
    (last.op = "start_merge" /\ last.ok) =>
        /\ Len(last.ret) = Len(last.ids)
        /\ \A i \in 1..Len(last.ids) :
              /\ segment_id(last.ret[i]) = last.ids[i]
              /\ last.ids[i] \in DOMAIN latest
              /\ last.ret[i] = latest[last.ids[i]]

\* C3 (amended): whenever start_merge(ids) succeeds, the ids of the returned
\* entries are the requested ids, in order, and each returned entry is the one
\* stored for that id in the register that holds all the ids (uncommitted if it
\* does, otherwise committed); an entry that soft_commit registered for the id
\* into committed_in_the_future is not returned.
C3_ReturnsHeldEntries ==
    (last.op = "start_merge" /\ last.ok) =>
        LET held == IF IdSet(last.ids) \subseteq DOMAIN uncommitted
                    THEN uncommitted ELSE committed
        IN  /\ Len(last.ret) = Len(last.ids)
            /\ \A i \in 1..Len(last.ids) :
                  /\ segment_id(last.ret[i]) = last.ids[i]
                  /\ last.ids[i] \in DOMAIN held
                  /\ last.ret[i] = held[last.ids[i]]

C3_Witness ==
    /\ last.op = "start_merge"
    /\ last.ok
    /\ Len(last.ids) = 2
    /\ last.ids[1] # last.ids[2]

\* C4: start_merge(ids) returns InvalidArgument whenever the ids span both
\* registers or some id is absent from both; it succeeds only when all ids are
\* in uncommitted or all ids are in committed.
C4_InvalidArgument ==
    last.op = "start_merge" =>
        LET ids == IdSet(last.ids)
            only_uncommitted == ids \cap ((DOMAIN uncommitted) \ (DOMAIN committed))
            only_committed == ids \cap ((DOMAIN committed) \ (DOMAIN uncommitted))
            absent == ids \ ((DOMAIN uncommitted) \cup (DOMAIN committed))
        IN  /\ (only_uncommitted # {} /\ only_committed # {}) => ~last.ok
            /\ absent # {} => ~last.ok
            /\ last.ok => (ids \subseteq DOMAIN uncommitted \/ ids \subseteq DOMAIN committed)

C4_Witness ==
    /\ last.op = "start_merge"
    /\ ~last.ok
    /\ \E a \in IdSet(last.ids), b \in IdSet(last.ids) :
          /\ a \in DOMAIN uncommitted /\ a \notin DOMAIN committed
          /\ b \in DOMAIN committed /\ b \notin DOMAIN uncommitted

EndMergeApplied == last.op = "end_merge" /\ target_register(last.pre, last.ids) # "none"

\* C5 (as claimed): after an applied end_merge(before_ids, after_entry) none of
\* before_ids is retrievable from the register that held them and after_entry's
\* id is retrievable from that register.
C5_Original ==
    EndMergeApplied =>
        LET target == TargetOf(Registers, target_register(last.pre, last.ids))
        IN  /\ \A id \in IdSet(last.ids) : id \notin DOMAIN target
            /\ segment_id(last.entries[1]) \in DOMAIN target

\* C5 (amended): after an applied end_merge(before_ids, after_entry), the
\* register it targets (uncommitted if it held all of before_ids, otherwise
\* committed) holds after_entry under its id, and none of before_ids other than
\* after_entry's own id is retrievable from it.
C5_BeforeReplacedByAfter ==
    EndMergeApplied =>
        LET target == TargetOf(Registers, target_register(last.pre, last.ids))
            after_id == segment_id(last.entries[1])
        IN  /\ \A id \in IdSet(last.ids) \ {after_id} : id \notin DOMAIN target
            /\ after_id \in DOMAIN target
            /\ target[after_id] = last.entries[1]

C5_Witness ==
    /\ EndMergeApplied
    /\ last.ids # <<>>
    /\ segment_id(last.entries[1]) \notin IdSet(last.ids)
    /\ IdSet(last.ids) \subseteq
          DOMAIN TargetOf(last.pre, target_register(last.pre, last.ids))

\* C6: an end_merge whose before_ids are wholly contained neither in uncommitted
\* nor in committed leaves the three registers as they were: after_entry is
\* registered nowhere.
C6_StaleMergeDropped ==
    (last.op = "end_merge"
        /\ ~(IdSet(last.ids) \subseteq DOMAIN last.pre.uncommitted)
        /\ ~(IdSet(last.ids) \subseteq DOMAIN last.pre.committed))
    => Registers = last.pre

C6_Witness ==
    /\ last.op = "end_merge"
    /\ ~(IdSet(last.ids) \subseteq DOMAIN last.pre.uncommitted)
    /\ ~(IdSet(last.ids) \subseteq DOMAIN last.pre.committed)
    /\ DOMAIN last.pre.uncommitted # {}
    /\ DOMAIN last.pre.committed # {}
    /\ segment_id(last.entries[1]) \notin
          (DOMAIN last.pre.uncommitted) \cup (DOMAIN last.pre.committed)

\* indices of the soft_commit entries for id whose delete opstamp differs from
\* the committed one
Advancing(id) ==
    {i \in 1..Len(last.entries) :
        /\ segment_id(last.entries[i]) = id
        /\ last.entries[i].meta.delete_opstamp
              # last.pre.committed[id].meta.delete_opstamp}

Max(S) == CHOOSE x \in S : \A y \in S : y <= x

\* C8: soft_commit never changes the committed register; for an id in committed,
\* entries with an equal delete opstamp change no register, and an entry with a
\* different delete opstamp leaves the committed entry as it was while
\* committed_in_the_future then holds the given entry for that id.
C8_SoftCommitKeepsCommitted ==
    last.op = "soft_commit" =>
        /\ committed = last.pre.committed
        /\ \A id \in DOMAIN last.pre.committed :
              /\ (id \in DOMAIN uncommitted) = (id \in DOMAIN last.pre.uncommitted)
              /\ id \in DOMAIN uncommitted => uncommitted[id] = last.pre.uncommitted[id]
              /\ Advancing(id) = {} =>
                    /\ (id \in DOMAIN committed_in_the_future)
                          = (id \in DOMAIN last.pre.committed_in_the_future)
                    /\ id \in DOMAIN committed_in_the_future =>
                          committed_in_the_future[id] = last.pre.committed_in_the_future[id]
              /\ Advancing(id) # {} =>
                    /\ id \in DOMAIN committed_in_the_future
                    /\ committed_in_the_future[id] = last.entries[Max(Advancing(id))]
        /\ (\A i \in 1..Len(last.entries) :
               /\ segment_id(last.entries[i]) \in DOMAIN last.pre.committed
               /\ Advancing(segment_id(last.entries[i])) = {})
           => Registers = last.pre

C8_Witness ==
    /\ last.op = "soft_commit"
    /\ Len(last.entries) = 2
    /\ segment_id(last.entries[1]) \in DOMAIN last.pre.committed
    /\ Advancing(segment_id(last.entries[1])) # {}
    /\ segment_id(last.entries[2]) \in DOMAIN last.pre.committed
    /\ Advancing(segment_id(last.entries[2])) = {}

\* C9: soft_commit is idempotent: applying soft_commit(entries) again right
\* after soft_commit(entries) leaves the three registers as the first left them.
C9_SoftCommitIdempotent ==
    last.op = "soft_commit" => soft_commit(Registers, last.entries) = Registers

C9_Witness ==
    /\ last.op = "soft_commit"
    /\ Registers # last.pre
    /\ Len(last.entries) = 2
    /\ segment_id(last.entries[1]) = segment_id(last.entries[2])
    /\ last.entries[1] # last.entries[2]

----------------------------------------------------------------------------
(* Frame conditions and register invariants of the single-caller specification *)

GivenIds == {segment_id(e) : e \in Range(last.entries)}

\* C15: soft_commit never introduces a segment: the sets of SegmentIds in
\* uncommitted and in committed are the same before and after it, an entry whose
\* id is in neither register changes no register (committed_in_the_future
\* included), and an entry whose id is only in uncommitted replaces the
\* uncommitted entry for that id.
C15_SoftCommitAddsNoSegment ==
    last.op = "soft_commit" =>
        LET known == (DOMAIN last.pre.uncommitted) \cup (DOMAIN last.pre.committed)
        IN  /\ DOMAIN uncommitted = DOMAIN last.pre.uncommitted
            /\ DOMAIN committed = DOMAIN last.pre.committed
            /\ \A id \in SegmentId \ known :
                  /\ (id \in DOMAIN committed_in_the_future)
                        = (id \in DOMAIN last.pre.committed_in_the_future)
                  /\ id \in DOMAIN committed_in_the_future =>
                        committed_in_the_future[id] = last.pre.committed_in_the_future[id]
            /\ GivenIds \cap known = {} => Registers = last.pre
            /\ \A id \in (DOMAIN last.pre.uncommitted) \ (DOMAIN last.pre.committed) :
                  uncommitted[id] = IF id \in GivenIds
                                    THEN LastWithId(last.entries, id)
                                    ELSE last.pre.uncommitted[id]

C15_Witness ==
    /\ last.op = "soft_commit"
    /\ Len(last.entries) = 2
    /\ segment_id(last.entries[1]) \notin
          (DOMAIN last.pre.uncommitted) \cup (DOMAIN last.pre.committed)
    /\ segment_id(last.entries[2]) \in
          (DOMAIN last.pre.uncommitted) \ (DOMAIN last.pre.committed)
    /\ last.entries[2] # last.pre.uncommitted[segment_id(last.entries[2])]

C18_FutureWithinCommitted ==
    (DOMAIN committed_in_the_future) \subseteq (DOMAIN committed)

opstamp(entry) == entry.meta.delete_opstamp

\* the ids whose committed_in_the_future entry the last call set or changed
FutureTouched ==
    {id \in DOMAIN committed_in_the_future :
        \/ id \notin DOMAIN last.pre.committed_in_the_future
        \/ committed_in_the_future[id] # last.pre.committed_in_the_future[id]}

\* no stored entry was replaced by the last call by one with a lower delete opstamp
NoEntryLowered ==
    /\ \A id \in (DOMAIN committed_in_the_future)
                    \cap (DOMAIN last.pre.committed_in_the_future) :
          opstamp(committed_in_the_future[id])
              >= opstamp(last.pre.committed_in_the_future[id])
    /\ \A id \in (DOMAIN uncommitted) \cap (DOMAIN last.pre.uncommitted) :
          opstamp(uncommitted[id]) >= opstamp(last.pre.uncommitted[id])

GivenNotLower ==
    \A i \in 1..Len(last.entries) :
        LET e == last.entries[i]
            id == segment_id(e)
        IN  /\ id \in DOMAIN last.pre.committed =>
                  opstamp(e) >= opstamp(last.pre.committed[id])
            /\ id \in DOMAIN last.pre.committed_in_the_future =>
                  opstamp(e) >= opstamp(last.pre.committed_in_the_future[id])
            /\ id \in DOMAIN last.pre.uncommitted =>
                  opstamp(e) >= opstamp(last.pre.uncommitted[id])

C20_EndMergePrefersUncommitted ==
    (last.op = "end_merge"
        /\ IdSet(last.ids) \subseteq DOMAIN last.pre.uncommitted
        /\ IdSet(last.ids) \subseteq DOMAIN last.pre.committed)
    => LET after_id == segment_id(last.entries[1])
       IN  /\ committed = last.pre.committed
           /\ committed_in_the_future = last.pre.committed_in_the_future
           /\ DOMAIN uncommitted =
                 ((DOMAIN last.pre.uncommitted) \ IdSet(last.ids)) \cup {after_id}
           /\ uncommitted[after_id] = last.entries[1]
           /\ \A id \in (DOMAIN uncommitted) \ {after_id} :
                 uncommitted[id] = last.pre.uncommitted[id]

C20_Witness ==
    /\ last.op = "end_merge"
    /\ last.ids # <<>>
    /\ IdSet(last.ids) \subseteq DOMAIN last.pre.uncommitted
    /\ IdSet(last.ids) \subseteq DOMAIN last.pre.committed
    /\ segment_id(last.entries[1]) \notin IdSet(last.ids)

----------------------------------------------------------------------------
(* Properties of the merge specification *)

\* the last call is an applied end_merge that ended the merge under way
MergeApplied == merging.state = "ended" /\ EndMergeApplied

\* the end_merge just applied took last.ids out of the register `name` and
\* registered its after_entry there, leaving the other register alone
LandedIn(name) ==
    LET after_id == segment_id(last.entries[1])
    IN  /\ IdSet(last.ids) \subseteq DOMAIN TargetOf(last.pre, name)
        /\ \A id \in IdSet(last.ids) \ {after_id} : id \notin DOMAIN TargetOf(Registers, name)
        /\ after_id \in DOMAIN TargetOf(Registers, name)
        /\ TargetOf(Registers, name)[after_id] = last.entries[1]
        /\ OtherOf(Registers, name) = OtherOf(last.pre, name)

\* C11 (as claimed): if start_merge(ids) succeeded by finding ids in register R,
\* any later applied end_merge(ids, after) removes ids from and registers after
\* into that same R, whatever commit, add_segment or soft_commit calls other
\* threads made in between.
C11_Original == MergeApplied => LandedIn(merging.found)

\* C11 (amended): an applied end_merge(ids, after) removes ids from and
\* registers after into the register that holds all of ids when end_merge runs
\* (uncommitted if it does, otherwise committed).  That is the register
\* start_merge found them in unless, in between, start_merge found them in
\* uncommitted and a commit was made (the result then lands in committed), or
\* start_merge found them in committed and add_segment registered one of the ids
\* (the result then lands in uncommitted).
C11_LandsWhereIdsAreHeld ==
    MergeApplied =>
        LET now == target_register(last.pre, last.ids)
        IN  /\ LandedIn(now)
            /\ now # merging.found =>
                  \/ merging.found = "uncommitted" /\ now = "committed" /\ merging.committed
                  \/ merging.found = "committed" /\ now = "uncommitted" /\ merging.added

C11_Witness ==
    /\ MergeApplied
    /\ last.ids # <<>>
    /\ merging.committed
    /\ target_register(last.pre, last.ids) = merging.found
    /\ segment_id(last.entries[1]) \notin IdSet(last.ids)

----------------------------------------------------------------------------
(* Properties of the threaded specification *)

\* C7: every meta returned by committed_segment_metas() has a live document
\* count greater than zero, also when other threads call commit, add_segment,
\* soft_commit or end_merge concurrently with the call.
C7_NoEmptyMetaReturned ==
    \A t \in Threads :
        pc[t] = "committed_segment_metas_return" =>
            \A segment_meta \in frame[t].ret : segment_meta.num_docs > 0

\* C10: every snapshot a reader (segment_entries, get_mergeable_segments,
\* start_merge) returns is the view of the registers as they were when a
\* commit, soft_commit, end_merge or other write was last completed: while a
\* reader holds the lock no write is partway, and what it returns is computed
\* from that one state of the three registers.
C10_ReadersSeeWholeWrites ==
    /\ lock.readers # {} => (lock.writer = 0 /\ Registers = stable)
    /\ \A t \in Threads :
          /\ pc[t] = "segment_entries_return" =>
                frame[t].ret = manager_segment_entries(stable)
          /\ pc[t] = "get_mergeable_segments_return" =>
                <<frame[t].part, frame[t].ret>> =
                    get_mergeable_segments(frame[t].in_merge, stable)
          /\ pc[t] = "start_merge_return" =>
                /\ frame[t].ok = start_merge(stable, frame[t].ids).ok
                /\ frame[t].segment_entries = start_merge(stable, frame[t].ids).entries

\* a reader is about to return what it read, after another thread completed
\* the write of remove_empty_segments
C10_Witness ==
    \E t \in Threads, u \in Threads :
        /\ t # u
        /\ pc[t] \in {"segment_entries_return", "get_mergeable_segments_return",
                      "start_merge_return"}
        /\ pc[u] = "committed_segment_metas_read"
        /\ DOMAIN stable.committed # {}

\* C17: get_mergeable_segments(in_merge_ids, manager) returns as first list
\* exactly the metas of the committed entries whose id is not in in_merge_ids and
\* as second list exactly the metas of the uncommitted entries whose id is not in
\* in_merge_ids, both as they stand in one state of the registers, and it
\* changes no register.
C17_MergeableSegments ==
    \A t \in Threads :
        /\ pc[t] \in {"get_mergeable_segments_committed",
                      "get_mergeable_segments_uncommitted",
                      "get_mergeable_segments_return"} => Registers = stable
        /\ pc[t] = "get_mergeable_segments_return" =>
              /\ frame[t].part =
                    {committed[id].meta : id \in (DOMAIN committed) \ frame[t].in_merge}
              /\ frame[t].ret =
                    {uncommitted[id].meta : id \in (DOMAIN uncommitted) \ frame[t].in_merge}

C17_Witness ==
    \E t \in Threads :
        /\ pc[t] = "get_mergeable_segments_return"
        /\ frame[t].in_merge \cap ((DOMAIN committed) \cup (DOMAIN uncommitted)) # {}
        /\ DOMAIN committed # {}
        /\ DOMAIN uncommitted # {}
        /\ frame[t].part \cup frame[t].ret # {}

\* C13: under fair scheduling of the threads every invoked operation returns:
\* no interleaving of readers and writers on the lock blocks a call for ever,
\* committed_segment_metas with its write lock followed by a read lock included.
C13_EveryCallReturns ==
    \A t \in Threads : (pc[t] # "idle") ~> (pc[t] = "idle")

C13_Witness ==
    \E t \in Threads, u \in Threads :
        /\ t # u
        /\ pc[t] = "committed_segment_metas_read"
        /\ lock.writer = u
        /\ pc[u] \notin {"idle", "invoked"}

====
